---------------------------- MODULE Spec2Model ----------------------------
(* XD_TDS: the driver TDS.py (iterative resolution-dependent scale-factor  *)
(* refinement around the external program xdlsm) and the secondary tool    *)
(* scalefact.py (batch assignment from the unit cell).                     *)
(*                                                                         *)
(* Files of the working directory are records with an `exists' flag.       *)
(* Amplitudes are kept symbolically: `obs' names the value read from the   *)
(* original file and `corr' lists the (a,b) pairs it has been divided by,  *)
(* func(stl,a,b) being a real-valued polynomial.  Coefficients are         *)
(* integers in units of 1E-4; resolutions (stl) are integers.              *)
EXTENDS Integers, Sequences, FiniteSets, TLC

VARIABLES
    pc,          \* position of main() in TDS.py
    max_cycles,  \* configured number of refine cycles (TDS.py:56)
    cast_mode,   \* what the build does on an out-of-range float -> int8 cast
    xd,          \* working directory: xd.hkl, xd.fco, xd.res, xd.inp, xd.fou, xd.mas
    archive,     \* xdNN.*: index -> the six archived files
    num,         \* main's `num'
    bins,        \* main's `bins' (bin centers)
    popt,        \* main's `popt' of the current cycle
    corr_fact,   \* main's `corr_fact'
    cyc,         \* number of loop iterations entered
    runs,        \* history: the sites of the external runs so far
    fits,        \* history: the (a,b) returned by each fit
    saves,       \* history: the archive index of each save_copies call
    base_num,    \* history: archive index used by the single-scale baseline
    fmt_err,     \* history: snapshot taken when a format error was met
    sf           \* state of scalefact.py main()

vars == <<pc, max_cycles, cast_mode, xd, archive, num, bins, popt, corr_fact,
          cyc, runs, fits, saves, base_num, fmt_err, sf>>

drv_vars == <<pc, max_cycles, cast_mode, xd, archive, num, bins, popt,
              corr_fact, cyc, runs, fits, saves, base_num, fmt_err>>

-----------------------------------------------------------------------------
(* Bounds of the model *)
MaxCycles == 2      \* max_cycles ranges over 0..MaxCycles
MaxRows == 3        \* rows of the initial xd.hkl
MaxPrior == 2       \* archive indices that may be occupied at start
MaxRefl == 3        \* scalefact.py: reflections in xd.hkl
MaxStl == 4         \* scalefact.py: largest resolution, in steps of StlStep

(* Program constants *)
scalefac_num == 12
sf_num == 10

ext_to_save == {"hkl", "fco", "res", "inp", "fou", "mas"}

-----------------------------------------------------------------------------
(* Integer helpers *)
Abs(x) == IF x < 0 THEN -x ELSE x

Min(S) == CHOOSE x \in S : \A y \in S : x <= y

Max(S) == CHOOSE x \in S : \A y \in S : x >= y

CeilDiv(p, q) == (p + q - 1) \div q

SeqRange(s) == {s[i] : i \in 1..Len(s)}

-----------------------------------------------------------------------------
(* Files *)

\* Miller indices offered to the initial reflection file; 200 lies outside int8
KeyList == << <<0, 0, 1>>, <<-56, 0, 1>>, <<200, 0, 1>> >>

\* resolution the engine reports for a reflection (an integer stand-in for
\* sin(theta)/lambda, which grows with the length of the index vector)
Stl(h, k, l) == Abs(h) + Abs(k) + Abs(l)

NoHkl == [exists |-> FALSE, header |-> "", prov |-> <<>>, rows |-> <<>>]
NoFco == [exists |-> FALSE, rows |-> <<>>]
NoRes == [exists |-> FALSE, ntok |-> 0]
NoInp == [exists |-> FALSE, usage |-> FALSE, nsf |-> 0, nvals |-> 0]
NoMas == [exists |-> FALSE, scale |-> 0]
NoFou == [exists |-> FALSE]

NoFiles == [hkl |-> NoHkl, fco |-> NoFco, res |-> NoRes, inp |-> NoInp,
            fou |-> NoFou, mas |-> NoMas]

HklRow(key, bn, obs) ==
    [h |-> key[1], k |-> key[2], l |-> key[3], bn |-> bn, obs |-> obs, corr |-> <<>>]

FcoRow(r, xdr) ==
    [h |-> r.h, k |-> r.k, l |-> r.l, stl |-> Stl(r.h, r.k, r.l), xdr |-> xdr]

OutOfInt8(key) == \E i \in 1..3 : key[i] < -128 \/ key[i] > 127

\* nondecreasing index sequences into KeyList, of length 0..MaxRows
SortedIdx ==
    UNION {{s \in [1..n -> 1..Len(KeyList)] : \A i \in 1..(n-1) : s[i] <= s[i+1]}
           : n \in 0..MaxRows}

\* an initial 6-column reflection file: one batch, no provenance line
InputHkl(s) ==
    [exists |-> TRUE, header |-> "head", prov |-> <<>>,
     rows |-> [i \in 1..Len(s) |-> HklRow(KeyList[s[i]], 1, i)]]

\* the files an earlier execution left under an archive index
OldFiles ==
    [hkl |-> [exists |-> TRUE, header |-> "old", prov |-> <<>>,
              rows |-> << HklRow(<<0, 0, 1>>, 1, 101), HklRow(<<1, 1, 0>>, 1, 102) >>],
     fco |-> [exists |-> TRUE,
              rows |-> << FcoRow([h |-> 0, k |-> 0, l |-> 1], 0),
                          FcoRow([h |-> 1, k |-> 1, l |-> 0], 0) >>],
     res |-> [exists |-> TRUE, ntok |-> 1],
     inp |-> [exists |-> TRUE, usage |-> TRUE, nsf |-> scalefac_num,
              nvals |-> scalefac_num],
     fou |-> [exists |-> TRUE],
     mas |-> [exists |-> TRUE, scale |-> scalefac_num]]

-----------------------------------------------------------------------------
(* TDS.py: pure parts *)

\* np.loadtxt followed by pd.DataFrame(..., columns=[...]) needs a 2-D array:
\* a missing file, an empty table and a single data row all raise
Loadable(f) == f.exists /\ Len(f.rows) >= 2

\* df.query("xdr == 0"), then drop the xdr column
Used(fcoRows) == SelectSeq(fcoRows, LAMBDA r : r.xdr = 0)

SameKey(a, b) == a.h = b.h /\ a.k = b.k /\ a.l = b.l

MergedRow(f, r) ==
    [h |-> f.h, k |-> f.k, l |-> f.l, stl |-> f.stl,
     bn |-> r.bn, obs |-> r.obs, corr |-> r.corr]

RECURSIVE JoinOne(_, _)
JoinOne(f, hklRows) ==
    IF hklRows = <<>> THEN <<>>
    ELSE (IF SameKey(f, Head(hklRows)) THEN <<MergedRow(f, Head(hklRows))>> ELSE <<>>)
         \o JoinOne(f, Tail(hklRows))

\* pd.merge(df, df_hkl, on=['h','k','l']): inner join, left order kept,
\* one output row per matching pair
RECURSIVE Merge(_, _)
Merge(fcoRows, hklRows) ==
    IF fcoRows = <<>> THEN <<>>
    ELSE JoinOne(Head(fcoRows), hklRows) \o Merge(Tail(fcoRows), hklRows)

Int8Wrap(x) == ((x + 128) % 256) - 128

Int8Sat(x) == IF x > 127 THEN 127 ELSE IF x < -128 THEN -128 ELSE x

\* .astype(np.int8) of a float column: exact inside -128..127; outside, the C
\* cast is undefined and the build either wraps or saturates
astype_int8(x) ==
    IF x >= -128 /\ x <= 127 THEN x
    ELSE IF cast_mode = "wrap" THEN Int8Wrap(x) ELSE Int8Sat(x)

ApplyTypes(rows) ==
    [i \in 1..Len(rows) |->
        [rows[i] EXCEPT !.h = astype_int8(@), !.k = astype_int8(@),
                        !.l = astype_int8(@), !.bn = astype_int8(@)]]

StlSet(rows) == {rows[i].stl : i \in 1..Len(rows)}

\* pd.cut(x, N, retbins=True): N equal-width right-closed bins over [mn, mx],
\* the first edge lowered by 0.1% of the range so that mn falls in bin 1; when
\* mn = mx the range is widened by 0.1% on both sides and x sits on the middle
\* edge.  Bin numbers are 1..N.
CutBin(x, mn, mx, n) ==
    IF mn = mx THEN n \div 2
    ELSE IF x = mn THEN 1
    ELSE CeilDiv(n * (x - mn), mx - mn)

\* (bins[1:]+bins[:-1])/2, in units of 1/(2000 n)
BinCenter(b, mn, mx, n) ==
    IF mn = mx
    THEN IF mn = 0 THEN 2 * (2 * b - 1) - 2 * n
         ELSE 2 * n * (1000 * mn - Abs(mn)) + 2 * (2 * b - 1) * Abs(mn)
    ELSE 2000 * n * mn + 1000 * (2 * b - 1) * (mx - mn)
         - (IF b = 1 THEN n * (mx - mn) ELSE 0)

BinCenters(rows, n) ==
    [b \in 1..n |-> BinCenter(b, Min(StlSet(rows)), Max(StlSet(rows)), n)]

\* df['bn'] = df.groupby(binned)['bn'].ngroup() + 1: the grouper is categorical,
\* so the group number is the bin's position among all n bins
AssignBatches(rows, n) ==
    [i \in 1..Len(rows) |->
        [rows[i] EXCEPT !.bn = CutBin(rows[i].stl, Min(StlSet(rows)),
                                      Max(StlSet(rows)), n)]]

\* df['hkl_F2o'] / df['stl'].apply(func, args=(a, b))
ApplyCorrection(rows, ab) ==
    [i \in 1..Len(rows) |-> [rows[i] EXCEPT !.corr = Append(@, ab)]]

\* df.drop(['F2c','F2o','stl']) and to_string: the six columns written
WrittenRows(rows) ==
    [i \in 1..Len(rows) |->
        [h |-> rows[i].h, k |-> rows[i].k, l |-> rows[i].l, bn |-> rows[i].bn,
         obs |-> rows[i].obs, corr |-> rows[i].corr]]

\* '{:.3f}' of a coefficient held in units of 1E-4: nearest thousandth
Fmt3(c) == IF c >= 0 THEN (c + 5) \div 10 ELSE -((-c + 5) \div 10)

ProvLine(ab) == <<Fmt3(ab[1]), Fmt3(ab[2])>>

\* the values a fit may return for a and for b, in units of 1E-4
\* the (a,b) pairs a fit may return, in units of 1E-4
FitResults == {<<-8, 4>>, <<16, -2>>}

AddPair(p, q) == <<p[1] + q[1], p[2] + q[2]>>

RECURSIVE SumPairs(_)
SumPairs(s) == IF s = <<>> THEN <<0, 0>> ELSE AddPair(Head(s), SumPairs(Tail(s)))

\* len(glob.glob('xd??.hkl'))
ArchivedHklCount == Cardinality({i \in DOMAIN archive : archive[i].hkl.exists})

-----------------------------------------------------------------------------
(* The external program xdlsm, seen through the files it reads and writes *)

RECURSIVE DistinctRows(_, _)
DistinctRows(rows, seen) ==
    IF rows = <<>> THEN <<>>
    ELSE LET r == Head(rows)
             key == <<r.h, r.k, r.l>>
         IN  IF key \in seen THEN DistinctRows(Tail(rows), seen)
             ELSE <<r>> \o DistinctRows(Tail(rows), seen \cup {key})

\* xd.fco lists every reflection of xd.hkl once, with its resolution and the
\* flag of the reflections the refinement rejected
EngineFco(hkl, rejected) ==
    LET d == DistinctRows(hkl.rows, {})
    IN  [exists |-> TRUE,
         rows |-> [i \in 1..Len(d) |->
                     FcoRow(d[i], IF <<d[i].h, d[i].k, d[i].l>> \in rejected
                                  THEN 1 ELSE 0)]]

\* the engine rejects no reflection or one of them
RejectChoices(hkl) ==
    {{}} \cup {{<<hkl.rows[i].h, hkl.rows[i].k, hkl.rows[i].l>>} : i \in 1..Len(hkl.rows)}

\* number of tokens of xd.res that match the scale-factor pattern of TDS.py:169:
\* one per scale factor the master file asks for, or one fewer when a refined
\* value is printed with an exponent ending in 0, which the pattern skips
ResTokens(mas) ==
    IF mas.scale = scalefac_num THEN {scalefac_num - 1, scalefac_num}
    ELSE {mas.scale}

-----------------------------------------------------------------------------
(* TDS.py main(): one action per step *)

MaxArch == MaxPrior + MaxCycles + 1

\* the files archived under index i by an earlier execution: xd00.* is its
\* single-scale baseline, the later ones are N-scale runs
OldArchive(i) ==
    IF i = 0
    THEN [OldFiles EXCEPT !.inp.nsf = 1, !.inp.nvals = 1, !.mas.scale = 1]
    ELSE OldFiles

NoErr == [seen |-> FALSE, hkl |-> NoHkl, inp |-> NoInp, mas |-> NoMas, nruns |-> 0]

\* history only: remember the files as they are when the first format error is met
NoteFormatError ==
    IF fmt_err.seen THEN fmt_err
    ELSE [seen |-> TRUE, hkl |-> xd.hkl, inp |-> xd.inp, mas |-> xd.mas,
          nruns |-> Len(runs)]

DrvInit ==
    /\ pc = "start"
    /\ max_cycles \in 0..MaxCycles
    /\ \E s \in SortedIdx, fmt \in {"ok", "no_usage", "no_scale"} :
          /\ xd = [hkl |-> InputHkl(s),
                fco |-> NoFco,
                res |-> NoRes,
                inp |-> [exists |-> TRUE, usage |-> (fmt # "no_usage"), nsf |-> 1,
                         nvals |-> 1],
                fou |-> NoFou,
                mas |-> [exists |-> TRUE,
                         scale |-> IF fmt = "no_scale" THEN 0 ELSE 1]]
          /\ cast_mode \in IF \E i \in 1..Len(s) : OutOfInt8(KeyList[s[i]])
                           THEN {"wrap", "saturate"} ELSE {"wrap"}
    /\ \E prior \in SUBSET (0..(MaxPrior - 1)) :
          archive = [i \in 0..MaxArch |-> IF i \in prior THEN OldArchive(i) ELSE NoFiles]
    /\ num = 0
    /\ bins = <<>>
    /\ popt = <<0, 0>>
    /\ corr_fact = <<0, 0>>
    /\ cyc = 0
    /\ runs = <<>>
    /\ fits = <<>>
    /\ saves = <<>>
    /\ base_num = -1
    /\ fmt_err = NoErr

\* an index counted from one
NextNumOff == ArchivedHklCount + 1

\* TDS.py:72
NextNum == ArchivedHklCount

Start ==
    /\ pc = "start"
    /\ num' = NextNum
    /\ pc' = "run1"
    /\ UNCHANGED <<max_cycles, cast_mode, xd, archive, bins, popt, corr_fact, cyc,
                   runs, fits, saves, base_num, fmt_err, sf>>

RunSites == {"run1", "run2", "run_c", "run_f"}

AfterRun(site) ==
    CASE site = "run1" -> "save1"
      [] site = "run2" -> "save2"
      [] site = "run_c" -> "save_c"
      [] site = "run_f" -> "done"

\* p = Popen(path_xdlsm); p.wait()
RunXdlsm ==
    /\ pc \in RunSites
    /\ \E rej \in RejectChoices(xd.hkl), ntok \in ResTokens(xd.mas) :
          xd' = [xd EXCEPT !.fco = EngineFco(xd.hkl, rej),
                           !.res = [exists |-> TRUE, ntok |-> ntok]]
    /\ runs' = Append(runs, pc)
    /\ pc' = AfterRun(pc)
    /\ UNCHANGED <<max_cycles, cast_mode, archive, num, bins, popt, corr_fact, cyc,
                   fits, saves, base_num, fmt_err, sf>>

\* save_copies(ext_to_save, num)
save_copies(n) ==
    [archive EXCEPT ![n] =
        [e \in ext_to_save |-> IF xd[e].exists THEN xd[e] ELSE archive[n][e]]]

\* an off-by-one loop bound
LoopOneMore == cyc <= max_cycles

\* for _ in range(max_cycles)
LoopContinues == cyc < max_cycles

SaveCopies ==
    /\ pc \in {"save1", "save2", "save_c"}
    /\ LET n == IF pc = "save1" THEN num ELSE NextNum
       IN  /\ num' = n
           /\ archive' = save_copies(n)
           /\ saves' = Append(saves, n)
           /\ base_num' = IF pc = "save1" THEN n ELSE base_num
    /\ pc' = IF pc = "save1" THEN "batch"
             ELSE IF LoopContinues THEN "fit" ELSE "final"
    /\ UNCHANGED <<max_cycles, cast_mode, xd, bins, popt, corr_fact, cyc, runs,
                   fits, fmt_err, sf>>

Abort ==
    /\ pc' = "aborted"
    /\ UNCHANGED <<max_cycles, cast_mode, xd, archive, num, bins, popt, corr_fact,
                   cyc, runs, fits, saves, base_num, sf>>

\* TDS.py:84-120: merge xd.fco with xd.hkl, assign the batches, rewrite xd.hkl
BatchRows(fco, hkl) == ApplyTypes(Merge(Used(fco.rows), hkl.rows))

BatchAssign ==
    /\ pc = "batch"
    /\ \/ /\ Loadable(xd.fco) /\ Loadable(xd.hkl)
          /\ BatchRows(xd.fco, xd.hkl) # <<>>
          /\ LET rows == BatchRows(xd.fco, xd.hkl)
             IN  /\ bins' = BinCenters(rows, scalefac_num)
                 /\ xd' = [xd EXCEPT !.hkl =
                             [exists |-> TRUE, header |-> xd.hkl.header, prov |-> <<>>,
                              rows |-> WrittenRows(AssignBatches(rows, scalefac_num))]]
          /\ pc' = "edit_inp"
          /\ UNCHANGED <<max_cycles, cast_mode, archive, num, popt, corr_fact, cyc,
                         runs, fits, saves, base_num, fmt_err, sf>>
       \/ \* loadtxt/DataFrame or pd.cut (empty input) raises before xd.hkl is opened
          /\ ~(Loadable(xd.fco) /\ Loadable(xd.hkl) /\ BatchRows(xd.fco, xd.hkl) # <<>>)
          /\ Abort
          /\ UNCHANGED fmt_err

\* TDS.py:126-131: the two re.sub calls; a pattern that matches nothing leaves
\* the text as it is
EditedInp(inp) ==
    [inp EXCEPT !.nsf = IF inp.usage THEN scalefac_num ELSE @,
                !.nvals = IF @ = 1 THEN scalefac_num ELSE @]

\* TDS.py:122-134
EditInp ==
    /\ pc = "edit_inp"
    /\ xd' = [xd EXCEPT !.inp = EditedInp(@)]
    /\ fmt_err' = IF xd.inp.usage THEN fmt_err ELSE NoteFormatError
    /\ pc' = "edit_mas"
    /\ UNCHANGED <<max_cycles, cast_mode, archive, num, bins, popt, corr_fact, cyc,
                   runs, fits, saves, base_num, sf>>

\* TDS.py:140: re.sub('(SCALE\s+)(\d)+', ...); scale = 0 stands for no SCALE line
EditedMas(mas) == [mas EXCEPT !.scale = IF @ = 0 THEN 0 ELSE scalefac_num]

\* TDS.py:136-143
EditMas ==
    /\ pc = "edit_mas"
    /\ xd' = [xd EXCEPT !.mas = EditedMas(@)]
    /\ fmt_err' = IF xd.mas.scale # 0 THEN fmt_err ELSE NoteFormatError
    /\ pc' = "run2"
    /\ UNCHANGED <<max_cycles, cast_mode, archive, num, bins, popt, corr_fact, cyc,
                   runs, fits, saves, base_num, sf>>

\* corr_fact = popt instead of corr_fact += popt
Overwrite(acc, ab) == ab

\* TDS.py:181
Accumulate(acc, ab) == AddPair(acc, ab)

\* TDS.py:169-170: findall(...)[-scalefac_num:], the number of scale values
\* handed to the fit (at most the last scalefac_num tokens of xd.res)
sfacs_len(res) == Min({res.ntok, scalefac_num})

\* TDS.py:178: xdata of curve_fit is `bins' as line 108 left it
FitCenters == bins

\* TDS.py:175-178: sfacs.max() needs one value, curve_fit as many values as
\* centers
FitRuns == sfacs_len(xd.res) > 0 /\ sfacs_len(xd.res) = Len(FitCenters)

\* TDS.py:164-181: parse the scale factors, fit, accumulate
Fit ==
    /\ pc = "fit"
    /\ \/ /\ FitRuns
          /\ \E ab \in FitResults :
                /\ popt' = ab
                /\ corr_fact' = Accumulate(corr_fact, ab)
                /\ fits' = Append(fits, ab)
          /\ cyc' = cyc + 1
          /\ pc' = "rewrite"
          /\ UNCHANGED <<max_cycles, cast_mode, xd, archive, num, bins, runs, saves,
                         base_num, fmt_err, sf>>
       \/ \* sfacs.max() of an empty array, or curve_fit on arrays of unequal length
          /\ ~FitRuns
          /\ Abort
          /\ fmt_err' = NoteFormatError

\* the rows and provenance line written by a correcting rewrite
CorrectedHkl(fco, hkl, ab) ==
    [exists |-> TRUE, header |-> hkl.header, prov |-> <<ProvLine(ab)>>,
     rows |-> WrittenRows(ApplyCorrection(BatchRows(fco, hkl), ab))]

\* TDS.py:183-215
CycleRewrite ==
    /\ pc = "rewrite"
    /\ \/ /\ Loadable(xd.fco) /\ Loadable(xd.hkl)
          /\ xd' = [xd EXCEPT !.hkl = CorrectedHkl(xd.fco, xd.hkl, popt)]
          /\ pc' = "run_c"
          /\ UNCHANGED <<max_cycles, cast_mode, archive, num, bins, popt, corr_fact,
                         cyc, runs, fits, saves, base_num, fmt_err, sf>>
       \/ /\ ~(Loadable(xd.fco) /\ Loadable(xd.hkl))
          /\ Abort
          /\ UNCHANGED fmt_err

\* TDS.py:235, 242, 269, 270: the archive the final step reads
FinalSource == archive[0]

\* TDS.py:234-266
FinalRewrite ==
    /\ pc = "final"
    /\ \/ /\ Loadable(FinalSource.fco) /\ Loadable(FinalSource.hkl)
          /\ xd' = [xd EXCEPT !.hkl =
                      CorrectedHkl(FinalSource.fco, FinalSource.hkl, corr_fact)]
          /\ pc' = "restore"
          /\ UNCHANGED <<max_cycles, cast_mode, archive, num, bins, popt, corr_fact,
                         cyc, runs, fits, saves, base_num, fmt_err, sf>>
       \/ /\ ~(Loadable(FinalSource.fco) /\ Loadable(FinalSource.hkl))
          /\ Abort
          /\ UNCHANGED fmt_err

\* TDS.py:268-270: shutil.copy raises when the source is missing
Restore ==
    /\ pc = "restore"
    /\ xd' = [xd EXCEPT !.mas = IF FinalSource.mas.exists THEN FinalSource.mas ELSE @,
                        !.inp = IF FinalSource.mas.exists /\ FinalSource.inp.exists
                                THEN FinalSource.inp ELSE @]
    /\ pc' = IF FinalSource.mas.exists /\ FinalSource.inp.exists
             THEN "run_f" ELSE "aborted"
    /\ UNCHANGED <<max_cycles, cast_mode, archive, num, bins, popt, corr_fact, cyc,
                   runs, fits, saves, base_num, fmt_err, sf>>

SfIdle == [pc |-> "idle"]

Init == DrvInit /\ sf = SfIdle

Next ==
    \/ Start
    \/ RunXdlsm
    \/ SaveCopies
    \/ BatchAssign
    \/ EditInp
    \/ EditMas
    \/ Fit
    \/ CycleRewrite
    \/ FinalRewrite
    \/ Restore

Spec == Init /\ [][Next]_vars

-----------------------------------------------------------------------------
(* scalefact.py main().  Resolutions are integers in units of 1E-5; the       *)
(* geometry (cell -> matrix -> stl) is real arithmetic and enters as the      *)
(* resolution of each reflection.                                             *)

StlStep == 25 * 1000

\* differences between the maximum stl of xd.fco and the recomputed one
FcoDeltas == {-12, -11, -10, 0, 10, 11, 12}

StlLists == UNION {[1..n -> {StlStep * k : k \in 0..MaxStl}] : n \in 0..MaxRefl}

\* a purely absolute comparison, as with rtol=0
absclose(a, b) == Abs(a - b) <= 10

\* np.isclose(a, b, atol=1E-4): abs(a - b) <= atol + rtol * abs(b), rtol = 1E-5
isclose(a, b) == Abs(a - b) * 100000 <= 10 * 100000 + Abs(b)

SeqMax(q) == Max(SeqRange(q))

\* scalefact.py:180
sf_range_max(stl) == SeqMax(stl)

\* left-closed bins, as with right=False
cut_label_left(x, R) == (x * sf_num) \div R + 1

\* pd.cut(stl, bins=sf_range, labels=1..sf_num, include_lowest=True): bins
\* (e[j-1], e[j]] with e[j] = j*R/sf_num, the first one closed on the left
cut_label(x, R) == IF x = 0 THEN 1 ELSE CeilDiv(x * sf_num, R)

\* scalefact.py:50-55
ndat_ok(ndat) == ndat = 6 \/ ndat = 7

DrvIdle ==
    /\ pc = "idle"
    /\ max_cycles = 0
    /\ cast_mode = "wrap"
    /\ xd = NoFiles
    /\ archive = [i \in 0..MaxArch |-> NoFiles]
    /\ num = 0
    /\ bins = <<>>
    /\ popt = <<0, 0>>
    /\ corr_fact = <<0, 0>>
    /\ cyc = 0
    /\ runs = <<>>
    /\ fits = <<>>
    /\ saves = <<>>
    /\ base_num = -1
    /\ fmt_err = NoErr

SfInit ==
    /\ DrvIdle
    /\ \E mas \in {"absent", "no_cell", "ok"}, ndat \in {5, 6, 7}, stl \in StlLists,
          fx \in BOOLEAN, d \in FcoDeltas :
          /\ fx \/ d = 0
          /\ sf = [pc |-> "start", mas |-> mas, ndat |-> ndat, stl |-> stl,
                   fco_exists |-> fx, fco_delta |-> d, s |-> <<>>, written |-> FALSE]

SfFail == sf' = [sf EXCEPT !.pc = "failed"]

\* scalefact.py:160-166: xd.mas must exist and hold CELL and WAVE records
SfGetCell ==
    /\ sf.pc = "start"
    /\ IF sf.mas = "ok" THEN sf' = [sf EXCEPT !.pc = "get_data"] ELSE SfFail
    /\ UNCHANGED drv_vars

\* scalefact.py:169 (get_data, 47-57)
SfGetData ==
    /\ sf.pc = "get_data"
    /\ IF ndat_ok(sf.ndat) THEN sf' = [sf EXCEPT !.pc = "resolution"] ELSE SfFail
    /\ UNCHANGED drv_vars

\* scalefact.py:171-180: stl.max() of an empty array raises
SfResolution ==
    /\ sf.pc = "resolution"
    /\ IF sf.stl # <<>> THEN sf' = [sf EXCEPT !.pc = "check"] ELSE SfFail
    /\ UNCHANGED drv_vars

\* scalefact.py:183-187
fco_consistent ==
    ~sf.fco_exists \/ isclose(sf_range_max(sf.stl) + sf.fco_delta, sf_range_max(sf.stl))

SfCheck ==
    /\ sf.pc = "check"
    /\ IF fco_consistent THEN sf' = [sf EXCEPT !.pc = "cut"] ELSE SfFail
    /\ UNCHANGED drv_vars

\* scalefact.py:189: pd.cut raises when the bin edges are not unique (R = 0)
SfCut ==
    /\ sf.pc = "cut"
    /\ IF sf_range_max(sf.stl) > 0
       THEN sf' = [sf EXCEPT !.pc = "write",
                             !.s = [i \in 1..Len(sf.stl) |->
                                       cut_label(sf.stl[i], sf_range_max(sf.stl))]]
       ELSE SfFail
    /\ UNCHANGED drv_vars

\* scalefact.py:191 (write_hkl, 133-156)
SfWrite ==
    /\ sf.pc = "write"
    /\ sf' = [sf EXCEPT !.pc = "done", !.written = TRUE]
    /\ UNCHANGED drv_vars

SfNext == SfGetCell \/ SfGetData \/ SfResolution \/ SfCheck \/ SfCut \/ SfWrite

SpecSf == SfInit /\ [][SfNext]_vars

-----------------------------------------------------------------------------
(* Properties of TDS.py *)

IsPrefix(p, q) == Len(p) <= Len(q) /\ p = SubSeq(q, 1, Len(p))

ExpectedRuns(m) == <<"run1", "run2">> \o [i \in 1..m |-> "run_c"] \o <<"run_f">>

\* number of external runs completed when main() is at pc having entered c cycles
RunsAt(p, c) ==
    CASE p \in {"start", "run1"} -> 0
      [] p \in {"save1", "batch", "edit_inp", "edit_mas", "run2"} -> 1
      [] p = "save2" -> 2
      [] p = "fit" -> 2 + c
      [] p \in {"rewrite", "run_c"} -> 1 + c
      [] p = "save_c" -> 2 + c
      [] p \in {"final", "restore", "run_f"} -> 2 + max_cycles
      [] p = "done" -> 3 + max_cycles

\* C1: the external runs happen in the order single-scale baseline, N-scale
\* baseline, max_cycles refine cycles, final run; every position of main() is
\* passed with one fixed number of completed runs (so none is visited twice),
\* no more than max_cycles cycles are entered, and DONE is reached after
\* exactly max_cycles + 3 runs.
C1_RunOrder ==
    /\ IsPrefix(runs, ExpectedRuns(max_cycles))
    /\ cyc <= max_cycles
    /\ pc # "aborted" => Len(runs) = RunsAt(pc, cyc)
    /\ pc = "done" => runs = ExpectedRuns(max_cycles) /\ Len(runs) = max_cycles + 3

C1_Witness == pc = "done" /\ max_cycles = 2 /\ Len(runs) = 5 /\ cyc = 2

\* C2: the reflection file of the final run is built from the hkl and fco files
\* archived by this execution's single-scale baseline, with corr_fact applied
\* once, and the instruction and master files in place for the final run are
\* the ones that baseline archived.
C2_FinalFromBaseline ==
    /\ pc \in {"restore", "run_f", "done"} =>
          xd.hkl = CorrectedHkl(archive[base_num].fco, archive[base_num].hkl, corr_fact)
    /\ pc \in {"run_f", "done"} =>
          /\ xd.inp = archive[base_num].inp
          /\ xd.mas = archive[base_num].mas

RowCorrs(hkl) == {hkl.rows[i].corr : i \in 1..Len(hkl.rows)}

\* C3: corr_fact starts at (0,0) and always equals the component-wise sum of
\* the fits returned so far, one per cycle entered; inside the loop the
\* reflection file only carries the individual fits, and the rows written by
\* the final step carry corr_fact, applied exactly once.
C3_Accumulated ==
    /\ corr_fact = SumPairs(fits)
    /\ Len(fits) = cyc
    /\ cyc = 0 => corr_fact = <<0, 0>>
    /\ pc \in {"run_c", "save_c", "fit", "final"} =>
          \A c \in RowCorrs(xd.hkl) : c = fits
    /\ pc \in {"restore", "run_f", "done"} =>
          \A c \in RowCorrs(xd.hkl) : c = <<corr_fact>>

C3_Witness ==
    /\ pc = "done" /\ Len(fits) = 2 /\ fits[1] # fits[2]
    /\ xd.hkl.rows # <<>> /\ corr_fact = AddPair(fits[1], fits[2])

\* C4: after refine cycle i the reflection file carries, right after the
\* header, the provenance line of every cycle 1..i.
C4_ProvenanceKept ==
    pc = "run_c" => \A j \in 1..cyc : ProvLine(fits[j]) \in SeqRange(xd.hkl.prov)

Contiguous == \E k \in 0..(MaxArch + 1) :
                 {i \in DOMAIN archive : archive[i].hkl.exists} = 0..(k - 1)

SaveSites == {"save1", "save2", "save_c"}

SaveEffect ==
    pc \in SaveSites =>
       LET n == ArchivedHklCount
       IN  /\ \A e \in ext_to_save :
                 archive'[n][e] = IF xd[e].exists THEN xd[e] ELSE archive[n][e]
           /\ \A i \in DOMAIN archive \ {n} : archive'[i] = archive[i]
           /\ saves' = Append(saves, n)
           /\ Contiguous => (~archive[n].hkl.exists /\ Contiguous')

KeysOf(rows) == [i \in 1..Len(rows) |-> <<rows[i].h, rows[i].k, rows[i].l>>]

IndicesKept ==
    (pc \in {"batch", "rewrite", "final"} /\ pc' \notin {pc, "aborted"}) =>
          LET src == IF pc = "final" THEN FinalSource ELSE xd
          IN  KeysOf(xd'.hkl.rows) = KeysOf(Merge(Used(src.fco.rows), src.hkl.rows))

\* C6: every rewrite of the reflection file (batch assignment, refine cycle,
\* final step) writes each merged reflection with the h, k and l it was read with.
C6_IndicesExact == [][IndicesKept]_vars

NoDupKeys(rows) ==
    \A i, j \in 1..Len(rows) : i # j => ~SameKey(rows[i], rows[j])

\* C8: the merge about to be done holds only reflections present on both sides
\* and flagged used, and no two of its rows share (h,k,l).
C8_MergeUnique ==
    \A where \in {"batch", "rewrite", "final"} :
       LET src == IF where = "final" THEN FinalSource ELSE xd
           m == Merge(Used(src.fco.rows), src.hkl.rows)
       IN  (pc = where /\ Loadable(src.fco) /\ Loadable(src.hkl)) =>
              /\ NoDupKeys(m)
              /\ \A i \in 1..Len(m) :
                    /\ \E r \in SeqRange(src.hkl.rows) : SameKey(r, m[i])
                    /\ \E f \in SeqRange(src.fco.rows) : SameKey(f, m[i]) /\ f.xdr = 0

\* C9: once a format error has been met (no USAGE line, no SCALE line, too few
\* scale-factor tokens) the reflection, instruction and master files stay as
\* they were and no further external run is started.
C9_FormatErrorAborts ==
    fmt_err.seen =>
       /\ xd.hkl = fmt_err.hkl
       /\ xd.inp = fmt_err.inp
       /\ xd.mas = fmt_err.mas
       /\ Len(runs) = fmt_err.nruns

-----------------------------------------------------------------------------
(* Properties of scalefact.py *)

sfR == sf_range_max(sf.stl)

\* C7: every reflection gets one tag in 1..sf_num, that of the bin
\* ((s-1)R/N, sR/N] holding its resolution: an interior boundary goes to the
\* lower bin, resolution 0 to bin 1, the maximum resolution to bin N.
C7_BinTags ==
    sf.pc \in {"write", "done"} =>
       /\ Len(sf.s) = Len(sf.stl)
       /\ \A i \in 1..Len(sf.stl) :
             LET x == sf.stl[i]
                 t == sf.s[i]
             IN  /\ t \in 1..sf_num
                 /\ x = 0 => t = 1
                 /\ x > 0 => (t - 1) * sfR < x * sf_num /\ x * sf_num <= t * sfR
                 /\ x = sfR => t = sf_num
                 /\ \A j \in 1..(sf_num - 1) : x * sf_num = j * sfR => t = j

C7_Witness ==
    /\ sf.pc = "done" /\ Len(sf.stl) = 3
    /\ sf.stl[1] = 0 /\ sf.s[1] = 1
    /\ sf.stl[2] > 0 /\ 2 * sf.stl[2] = sfR /\ sf.s[2] = 5
    /\ sf.stl[3] = sfR /\ sf.s[3] = sf_num

\* the resolutions differ by more than atol + rtol * R
Mismatch == sf.fco_exists /\ Abs(sf.fco_delta) * 100000 > 10 * 100000 + sfR

\* C10 (amended): with xd.fco present and its maximum stl further than
\* 1E-4 + 1E-5 * R from the recomputed maximum R, the run fails and
\* xd_scaled.hkl is not written; a column count other than 6 or 7 is rejected
\* before anything is written; a run fails only for a missing or incomplete
\* xd.mas, a bad column count, an empty reflection list, R = 0 or that mismatch,
\* so that otherwise the output file is written.
C10_ConsistencyCheck ==
    /\ sf.written => ndat_ok(sf.ndat) /\ sf.stl # <<>> /\ ~Mismatch
    /\ ~ndat_ok(sf.ndat) => ~sf.written
    /\ sf.pc = "failed" =>
          /\ ~sf.written
          /\ \/ sf.mas # "ok"
             \/ ~ndat_ok(sf.ndat)
             \/ sf.stl = <<>>
             \/ sfR = 0
             \/ Mismatch
    /\ sf.pc = "done" => sf.written

C10_Witness ==
    /\ sf.pc = "failed" /\ ~sf.written
    /\ sf.mas = "ok" /\ ndat_ok(sf.ndat) /\ sf.stl # <<>>
    /\ sfR = 2 * StlStep /\ sf.fco_exists /\ sf.fco_delta = 11

\* C10 as stated: a difference of more than 1E-4 stops the run before the
\* output file is written.
C10_AbsoluteTolerance ==
    (sf.fco_exists /\ Abs(sf.fco_delta) > 10) => ~sf.written

\* the batches of xd.hkl that hold at least one reflection
NonEmptyBatches == {xd.hkl.rows[i].bn : i \in 1..Len(xd.hkl.rows)}

\* C11: when the fit runs, every reflection's batch tag k names the k-th of
\* the centers handed to the fit, and only centers of bins that hold a
\* reflection are handed to it (empty bins are left out of the fit input).
C11_EmptyBinsExcluded ==
    (pc = "fit" /\ FitRuns) =>
        /\ \A k \in NonEmptyBatches : k \in 1..Len(FitCenters)
        /\ \A k \in 1..Len(FitCenters) : k \in NonEmptyBatches

=============================================================================
